---- MODULE Spec2Model ----
(***************************************************************************)
(* A model of the NBA-Predict acquisition pipeline:                        *)
(*   - getdata.py : fetch_html_content (retry loop), scrape_season_data,   *)
(*                  scrape_game_data and main (the crawl orchestrator)     *)
(*   - parsedata.py : process_box_score and main (the extraction batch)    *)
(* Three specifications share the variables:                               *)
(*   SpecFetch : one call of fetch_html_content, attempt by attempt        *)
(*   Spec      : runs of getdata.main against one artifact store           *)
(*   SpecParse : one run of parsedata.main over a batch of documents       *)
(***************************************************************************)
EXTENDS Integers, Sequences, FiniteSets, TLC

VARIABLES
    fetch,       \* fetch_html_content: the frame of one call (SpecFetch)
    standings,   \* data/standings: file name -> content
    scores,      \* data/scores: file name -> content
    pc,          \* getdata.main: where the process is
    si,          \* main line 91: index of the season being scraped
    todo,        \* scrape_season_data: standings_pages still to visit
    cur,         \* the url whose existence check has passed
    buf,         \* page_html / game_html held between fetch and write
    files,       \* main line 95: standings_files
    sj,          \* main line 96: index of the season being scanned
    pending,     \* main line 97: files_for_season still to scan
    gtodo,       \* scrape_game_data: box_score_urls still to visit
    run,         \* number of the current run of main against the store
    prevDone,    \* whether the previous run returned from main
    fetched,     \* this run: url -> number of calls of fetch_html_content
    last,        \* this run: url and result of the latest call
    seen,        \* this run: season -> links listed and pages cached then
    scanned,     \* this run: file -> number of calls of scrape_game_data
    BOX_SCORES,  \* parsedata: the documents of the batch, in listing order
    di,          \* parsedata.main: 1 + the loop index i
    base_columns,\* parsedata.main: the pinned columns
    games_data,  \* parsedata.main: the frames extracted so far
    ppc,         \* parsedata.main: in the loop, returned, or left by an exception
    csv,         \* nba_games.csv: the rows written, or None
    peer         \* a second process of getdata.main on the same store (SpecRace)

crawlVars == <<standings, scores, pc, si, todo, cur, buf, files, sj, pending,
               gtodo, run, prevDone, fetched, last, seen, scanned>>
parseVars == <<BOX_SCORES, di, base_columns, games_data, ppc, csv>>
raceVars == <<peer>>
vars == <<fetch, crawlVars, parseVars, raceVars>>

(***************************************************************************)
(* Bounds of the model.                                                    *)
(***************************************************************************)
MaxRetries == 4      \* retry budgets 0..MaxRetries are explored in SpecFetch
MaxSleep == 2        \* base delays 1..MaxSleep are explored in SpecFetch
MaxRuns == 2         \* runs of getdata.main against the same store

(***************************************************************************)
(* Program constants.                                                      *)
(***************************************************************************)
DefaultSleep == 9
DefaultRetries == 12

\* Python's None, and the empty string (both falsy).
None == "None"
Blank == ""
Falsy(html) == html = None \/ html = Blank

(***************************************************************************)
(* fetch_html_content (getdata.py 13-33).                                  *)
(* The outcome of one attempt (lines 21-27) is the environment's choice:   *)
(* a PlaywrightTimeout, any other exception, or the selector's inner html. *)
(***************************************************************************)
Timeout == [kind |-> "timeout", html |-> None]
OtherError == [kind |-> "error", html |-> None]
Ok(h) == [kind |-> "ok", html |-> h]

\* The frame at entry: html = None, the loop about to start at attempt 1.
FetchStart(sleep, retries) ==
    [sleep |-> sleep, retries |-> retries, attempt |-> 1, html |-> None,
     status |-> IF retries >= 1 THEN "loop" ELSE "returned",
     slept |-> <<>>, made |-> <<>>]

\* time.sleep(sleep * attempt), line 19.
Delay(sleep, attempt) == sleep * attempt

\* Whether the for loop of line 18 has another value after `attempt`.
MoreAttempts(attempt, retries) == attempt < retries

AttemptStep_NoFirstDelay(st, out) ==
    LET slept == Append(st.slept, Delay(st.sleep, st.attempt - 1))
        made == Append(st.made, out)
    IN  CASE out.kind = "timeout" ->
               [st EXCEPT !.slept = slept, !.made = made,
                          !.attempt = st.attempt + 1,
                          !.status = IF MoreAttempts(st.attempt, st.retries)
                                     THEN "loop" ELSE "returned"]
          [] out.kind = "error" ->
               [st EXCEPT !.slept = slept, !.made = made, !.status = "raised"]
          [] OTHER ->
               [st EXCEPT !.slept = slept, !.made = made, !.html = out.html,
                          !.status = "returned"]

AttemptStep_OneShort(st, out) ==
    LET slept == Append(st.slept, Delay(st.sleep, st.attempt))
        made == Append(st.made, out)
    IN  CASE out.kind = "timeout" ->
               [st EXCEPT !.slept = slept, !.made = made,
                          !.attempt = st.attempt + 1,
                          !.status = IF MoreAttempts(st.attempt + 1, st.retries)
                                     THEN "loop" ELSE "returned"]
          [] out.kind = "error" ->
               [st EXCEPT !.slept = slept, !.made = made, !.status = "raised"]
          [] OTHER ->
               [st EXCEPT !.slept = slept, !.made = made, !.html = out.html,
                          !.status = "returned"]

AttemptStep_RetryAll(st, out) ==
    LET slept == Append(st.slept, Delay(st.sleep, st.attempt))
        made == Append(st.made, out)
    IN  CASE out.kind \in {"timeout", "error"} ->
               [st EXCEPT !.slept = slept, !.made = made,
                          !.attempt = st.attempt + 1,
                          !.status = IF MoreAttempts(st.attempt, st.retries)
                                     THEN "loop" ELSE "returned"]
          [] OTHER ->
               [st EXCEPT !.slept = slept, !.made = made, !.html = out.html,
                          !.status = "returned"]

\* One iteration of the loop, lines 18-32: sleep, then the attempt; a timeout
\* continues with the next attempt (or leaves the loop when there is none),
\* any other exception leaves the function, a success breaks.
AttemptStep(st, out) ==
    LET slept == Append(st.slept, Delay(st.sleep, st.attempt))
        made == Append(st.made, out)
    IN  CASE out.kind = "timeout" ->
               [st EXCEPT !.slept = slept, !.made = made,
                          !.attempt = st.attempt + 1,
                          !.status = IF MoreAttempts(st.attempt, st.retries)
                                     THEN "loop" ELSE "returned"]
          [] out.kind = "error" ->
               [st EXCEPT !.slept = slept, !.made = made, !.status = "raised"]
          [] OTHER ->
               [st EXCEPT !.slept = slept, !.made = made, !.html = out.html,
                          !.status = "returned"]

\* The whole call, given the outcomes the environment has in store.
RECURSIVE RunAttempts(_, _)
RunAttempts(st, outs) ==
    IF st.status # "loop" \/ outs = <<>> THEN st
    ELSE RunAttempts(AttemptStep(st, Head(outs)), Tail(outs))

(***************************************************************************)
(* The site, as far as the crawl reads it.  A url is the sequence of its   *)
(* "/"-separated parts; a fragment is the inner html a selector yields,    *)
(* read only through the hrefs of its anchors.                             *)
(***************************************************************************)
Host == "https://www.basketball-reference.com"

\* SEASONS: the first two of list(range(2016, 2025)).
SEASONS == <<2016, 2017>>

\* str(season)
Str(season) == CASE season = 2016 -> "2016" [] season = 2017 -> "2017"

Oct16 == "NBA_2016_games-october.html"
Nov16 == "NBA_2016_games-november.html"
Dec16 == "NBA_2016_games-december.html"
Oct17 == "NBA_2017_games-october.html"
G1 == "201510270ATL.html"
G2 == "201511010BOS.html"
G3 == "201610250CLE.html"
\* Two files a standings directory may hold besides: one named for two seasons
\* (the site's 2019-20 season has NBA_2020_games-october-2019.html), one for none.
TwoSeasons == "NBA_2017_games-october-2016.html"
NoSeason == "schedule.html"

\* f"https://www.basketball-reference.com/leagues/NBA_{season}_games.html"
IndexUrl(season) ==
    <<Host, "leagues",
      CASE season = 2016 -> "NBA_2016_games.html"
        [] season = 2017 -> "NBA_2017_games.html">>

\* url.split("/")[-1]
LastSegment(url) == url[Len(url)]

\* The fragments the site may serve for a url (besides the empty one).
WebFragments(url) ==
    LET n == LastSegment(url)
    IN  CASE n = "NBA_2016_games.html" -> {"idx16"}
          [] n = "NBA_2017_games.html" -> {"idx17"}
          [] n = Oct16 -> {"oct16.a", "oct16.b"}
          [] n = Nov16 -> {"nov16"}
          [] n = Dec16 -> {"dec16"}
          [] n = Oct17 -> {"oct17"}
          [] n = G1 -> {"g1.a", "g1.b"}
          [] n = G2 -> {"g2"}
          [] n = G3 -> {"g3"}
          [] OTHER -> {}

\* soup.find_all("a"), each anchor's href, in document order.
Hrefs(html) ==
    CASE html = "idx16" -> << <<"leagues", Oct16>>, <<"leagues", Nov16>>,
                              <<"leagues", Dec16>> >>
      [] html = "idx17" -> << <<"leagues", Oct17>> >>
      [] html = "oct16.a" -> << <<"boxscores", G1>>, <<"teams", "ATL", "2016.html">>,
                                <<"boxscores", G2>> >>
      [] html = "oct16.b" -> << <<"boxscores", G1>> >>
      [] html = "nov16" -> << <<"boxscores", G2>> >>
      [] html = "dec16" -> << <<"teams", "BOS", "2016.html">> >>
      [] html = "oct17" -> << <<"boxscores", G3>>, <<"teams", "CLE", "2017.html">> >>
      [] OTHER -> << >>

\* "boxscore" in href
HasBoxscore(href) == \E i \in 1..Len(href) : href[i] = "boxscores"

\* The season numbers that occur in a file name as substrings.
YearsIn(file) ==
    CASE file \in {Oct16, Nov16, Dec16} -> {"2016"}
      [] file = Oct17 -> {"2017"}
      [] file = TwoSeasons -> {"2016", "2017"}
      [] file = G3 -> {"2016"}
      [] OTHER -> {}

\* str(season) in file
SeasonInName(season, file) == Str(season) \in YearsIn(file)

\* f"https://www.basketball-reference.com{href}"
AbsUrl(href) == <<Host>> \o href

RECURSIVE SelectSeq2(_, _)
SelectSeq2(s, keep) ==
    IF s = <<>> THEN <<>>
    ELSE IF keep[1] THEN <<Head(s)>> \o SelectSeq2(Tail(s), Tail(keep))
    ELSE SelectSeq2(Tail(s), Tail(keep))

\* Line 49: every anchor of the season index names a schedule page.
StandingsPages(html) == [i \in 1..Len(Hrefs(html)) |-> AbsUrl(Hrefs(html)[i])]

\* Line 72: the anchors whose href contains "boxscore".
BoxScoreUrls(html) ==
    LET hs == Hrefs(html)
    IN  SelectSeq2([i \in 1..Len(hs) |-> AbsUrl(hs[i])],
                   [i \in 1..Len(hs) |-> HasBoxscore(hs[i])])

Names(urls) == {LastSegment(urls[i]) : i \in 1..Len(urls)}

(***************************************************************************)
(* The artifact store: two directories of files, and the run's logs.       *)
(***************************************************************************)
EmptyStore == [n \in {} |-> Blank]
Put(store, name, content) ==
    [n \in DOMAIN store \cup {name} |-> IF n = name THEN content ELSE store[n]]

\* os.path.exists(save_path)
Exists(store, name) == name \in DOMAIN store

EmptyBag == [k \in {} |-> 0]
Count(bag, k) == IF k \in DOMAIN bag THEN bag[k] ELSE 0
Inc(bag, k) == [x \in DOMAIN bag \cup {k} |-> IF x = k THEN Count(bag, k) + 1 ELSE bag[x]]

NoFetch == [url |-> <<>>, status |-> "none", html |-> None]
NoSeen == [s \in {} |-> [L |-> {}, P |-> {}]]

\* A call of fetch_html_content(url, selector) with the default sleep and
\* retries: every plan of attempt outcomes the environment may follow, run
\* through the loop; what the caller sees is the exception or the html.
TimeoutsThen(n, tail) == [i \in 1..n |-> Timeout] \o tail
AttemptPlans(url) ==
    {TimeoutsThen(DefaultRetries, <<>>)} \cup
    {TimeoutsThen(n, <<o>>) :
        n \in 0..(DefaultRetries - 1),
        o \in {OtherError} \cup {Ok(h) : h \in WebFragments(url) \cup {Blank}}}
FetchHtmlContent(url) ==
    {[status |-> RunAttempts(FetchStart(DefaultSleep, DefaultRetries), outs).status,
      html |-> RunAttempts(FetchStart(DefaultSleep, DefaultRetries), outs).html] :
        outs \in AttemptPlans(url)}

Logged(url, r) == [url |-> url, status |-> r.status, html |-> r.html]

(***************************************************************************)
(* getdata.main and the two scrape functions, one step per statement that  *)
(* touches the network or the store.                                       *)
(***************************************************************************)
IdleFetch == fetch = FetchStart(DefaultSleep, 0)

\* The values main's base_columns takes: None, a list of labels, or the
\* pandas Index of a frame's columns.
NoneCols == [kind |-> "None", items |-> <<>>]
ListOf(items) == [kind |-> "list", items |-> items]
IndexOf(items) == [kind |-> "Index", items |-> items]

\* The frame of a process of getdata.main: its place and its locals.
Frame(at) ==
    [pc |-> at, si |-> 1, todo |-> <<>>, cur |-> <<>>, buf |-> None, files |-> {},
     sj |-> 1, pending |-> {}, gtodo |-> <<>>, wrote |-> EmptyStore]

\* No second process.
IdlePeer == peer = Frame("absent")

\* parsedata.main not running.
IdleParse ==
    /\ BOX_SCORES = <<>>
    /\ di = 1
    /\ base_columns = NoneCols
    /\ games_data = <<>>
    /\ ppc = "idle"
    /\ csv = None

InitCrawl ==
    /\ standings = EmptyStore
    /\ scores = EmptyStore
    /\ pc = "season"
    /\ si = 1
    /\ todo = <<>>
    /\ cur = <<>>
    /\ buf = None
    /\ files = {}
    /\ sj = 1
    /\ pending = {}
    /\ gtodo = <<>>
    /\ run = 1
    /\ prevDone = FALSE
    /\ fetched = EmptyBag
    /\ last = NoFetch
    /\ seen = NoSeen
    /\ scanned = EmptyBag

SeasonFetch_DescendOnEmpty ==
    /\ pc = "season"
    /\ si <= Len(SEASONS)
    /\ \E r \in FetchHtmlContent(IndexUrl(SEASONS[si])) :
          /\ fetched' = Inc(fetched, IndexUrl(SEASONS[si]))
          /\ last' = Logged(IndexUrl(SEASONS[si]), r)
          /\ IF r.status = "raised"
             THEN /\ pc' = "crashed"
                  /\ UNCHANGED <<si, todo, seen>>
             ELSE /\ pc' = "pages"
                  /\ todo' = StandingsPages(r.html)
                  /\ seen' = [s \in DOMAIN seen \cup {SEASONS[si]} |->
                                IF s = SEASONS[si]
                                THEN [L |-> Names(StandingsPages(r.html)),
                                      P |-> Names(StandingsPages(r.html))
                                              \cap DOMAIN standings]
                                ELSE seen[s]]
                  /\ UNCHANGED si
    /\ UNCHANGED <<fetch, parseVars, raceVars, standings, scores, cur, buf, files, sj, pending, gtodo,
                   run, prevDone, scanned>>

\* scrape_season_data(season), lines 40-49: the season index is fetched
\* whatever the store holds; a falsy result returns, an exception propagates
\* out of main.
SeasonFetch ==
    /\ pc = "season"
    /\ si <= Len(SEASONS)
    /\ \E r \in FetchHtmlContent(IndexUrl(SEASONS[si])) :
          /\ fetched' = Inc(fetched, IndexUrl(SEASONS[si]))
          /\ last' = Logged(IndexUrl(SEASONS[si]), r)
          /\ IF r.status = "raised"
             THEN /\ pc' = "crashed"
                  /\ UNCHANGED <<si, todo, seen>>
             ELSE IF Falsy(r.html)
             THEN /\ pc' = "season"
                  /\ si' = si + 1
                  /\ UNCHANGED <<todo, seen>>
             ELSE /\ pc' = "pages"
                  /\ todo' = StandingsPages(r.html)
                  /\ seen' = [s \in DOMAIN seen \cup {SEASONS[si]} |->
                                IF s = SEASONS[si]
                                THEN [L |-> Names(StandingsPages(r.html)),
                                      P |-> Names(StandingsPages(r.html))
                                              \cap DOMAIN standings]
                                ELSE seen[s]]
                  /\ UNCHANGED si
    /\ UNCHANGED <<fetch, parseVars, raceVars, standings, scores, cur, buf, files, sj, pending, gtodo,
                   run, prevDone, scanned>>

PageCheck_NoDedup ==
    /\ pc = "pages"
    /\ todo # <<>>
    /\ cur' = Head(todo)
    /\ pc' = "pageFetch"
    /\ UNCHANGED todo
    /\ UNCHANGED <<fetch, parseVars, raceVars, standings, scores, si, buf, files, sj, pending, gtodo,
                   run, prevDone, fetched, last, seen, scanned>>

\* Lines 51-55: the next page of the loop; a page whose file exists is skipped.
PageCheck ==
    /\ pc = "pages"
    /\ todo # <<>>
    /\ IF Exists(standings, LastSegment(Head(todo)))
       THEN /\ todo' = Tail(todo)
            /\ UNCHANGED <<pc, cur>>
       ELSE /\ cur' = Head(todo)
            /\ pc' = "pageFetch"
            /\ UNCHANGED todo
    /\ UNCHANGED <<fetch, parseVars, raceVars, standings, scores, si, buf, files, sj, pending, gtodo,
                   run, prevDone, fetched, last, seen, scanned>>

\* Line 51, the loop exhausted: scrape_season_data returns, main takes the
\* next season (line 91).
PagesDone ==
    /\ pc = "pages"
    /\ todo = <<>>
    /\ pc' = "season"
    /\ si' = si + 1
    /\ UNCHANGED <<fetch, parseVars, raceVars, standings, scores, todo, cur, buf, files, sj, pending,
                   gtodo, run, prevDone, fetched, last, seen, scanned>>

PageFetch_Contained ==
    /\ pc = "pageFetch"
    /\ \E r \in FetchHtmlContent(cur) :
          /\ fetched' = Inc(fetched, cur)
          /\ last' = Logged(cur, r)
          /\ IF r.status = "raised" \/ Falsy(r.html)
             THEN /\ pc' = "pages"
                  /\ todo' = Tail(todo)
                  /\ UNCHANGED buf
             ELSE /\ pc' = "pageOpen"
                  /\ buf' = r.html
                  /\ UNCHANGED todo
    /\ UNCHANGED <<fetch, parseVars, raceVars, standings, scores, si, cur, files, sj, pending, gtodo,
                   run, prevDone, seen, scanned>>

PageFetch_WriteEmpty ==
    /\ pc = "pageFetch"
    /\ \E r \in FetchHtmlContent(cur) :
          /\ fetched' = Inc(fetched, cur)
          /\ last' = Logged(cur, r)
          /\ IF r.status = "raised"
             THEN /\ pc' = "crashed"
                  /\ UNCHANGED <<todo, buf>>
             ELSE IF r.html = None
             THEN /\ pc' = "pages"
                  /\ todo' = Tail(todo)
                  /\ UNCHANGED buf
             ELSE /\ pc' = "pageOpen"
                  /\ buf' = r.html
                  /\ UNCHANGED todo
    /\ UNCHANGED <<fetch, parseVars, raceVars, standings, scores, si, cur, files, sj, pending, gtodo,
                   run, prevDone, seen, scanned>>

\* Lines 57-58: the page is fetched; a falsy result writes nothing.
PageFetch ==
    /\ pc = "pageFetch"
    /\ \E r \in FetchHtmlContent(cur) :
          /\ fetched' = Inc(fetched, cur)
          /\ last' = Logged(cur, r)
          /\ IF r.status = "raised"
             THEN /\ pc' = "crashed"
                  /\ UNCHANGED <<todo, buf>>
             ELSE IF Falsy(r.html)
             THEN /\ pc' = "pages"
                  /\ todo' = Tail(todo)
                  /\ UNCHANGED buf
             ELSE /\ pc' = "pageOpen"
                  /\ buf' = r.html
                  /\ UNCHANGED todo
    /\ UNCHANGED <<fetch, parseVars, raceVars, standings, scores, si, cur, files, sj, pending, gtodo,
                   run, prevDone, seen, scanned>>

PageOpen_Exclusive ==
    /\ pc = "pageOpen"
    /\ IF Exists(standings, LastSegment(cur))
       THEN /\ pc' = "pages"
            /\ todo' = Tail(todo)
            /\ buf' = None
            /\ UNCHANGED standings
       ELSE /\ standings' = Put(standings, LastSegment(cur), Blank)
            /\ pc' = "pageWrite"
            /\ UNCHANGED <<todo, buf>>
    /\ UNCHANGED <<fetch, parseVars, raceVars, scores, si, cur, files, sj, pending, gtodo,
                   run, prevDone, fetched, last, seen, scanned>>

\* Line 59: open(save_path, "w+") creates the file, or truncates it.
PageOpen ==
    /\ pc = "pageOpen"
    /\ standings' = Put(standings, LastSegment(cur), Blank)
    /\ pc' = "pageWrite"
    /\ UNCHANGED <<fetch, parseVars, raceVars, scores, si, todo, cur, buf, files, sj, pending, gtodo,
                   run, prevDone, fetched, last, seen, scanned>>

\* Line 60 and the end of the with block: the html reaches the file.
PageWrite ==
    /\ pc = "pageWrite"
    /\ standings' = Put(standings, LastSegment(cur), buf)
    /\ buf' = None
    /\ todo' = Tail(todo)
    /\ pc' = "pages"
    /\ UNCHANGED <<fetch, parseVars, raceVars, scores, si, cur, files, sj, pending, gtodo,
                   run, prevDone, fetched, last, seen, scanned>>

\* Line 97: [file for file in standings_files if str(season) in file]
FilesForSeason(season, listing) == {f \in listing : SeasonInName(season, f)}

ListDir_Scores ==
    /\ pc = "season"
    /\ si > Len(SEASONS)
    /\ files' = DOMAIN scores
    /\ sj' = 1
    /\ pending' = FilesForSeason(SEASONS[1], DOMAIN scores)
    /\ pc' = "scan"
    /\ UNCHANGED <<fetch, parseVars, raceVars, standings, scores, si, todo, cur, buf, gtodo,
                   run, prevDone, fetched, last, seen, scanned>>

\* Lines 95-97: after the last season, the standings directory is listed
\* once and the first season's files are selected.
ListDir ==
    /\ pc = "season"
    /\ si > Len(SEASONS)
    /\ files' = DOMAIN standings
    /\ sj' = 1
    /\ pending' = FilesForSeason(SEASONS[1], DOMAIN standings)
    /\ pc' = "scan"
    /\ UNCHANGED <<fetch, parseVars, raceVars, standings, scores, si, todo, cur, buf, gtodo,
                   run, prevDone, fetched, last, seen, scanned>>

\* Lines 98-99 and 67-72: scrape_game_data on the next file of the season
\* (os.listdir promises no order): the file is read and its box-score links
\* collected.
ScanFile ==
    /\ pc = "scan"
    /\ \E f \in pending :
          /\ pending' = pending \ {f}
          /\ scanned' = Inc(scanned, f)
          /\ gtodo' = BoxScoreUrls(standings[f])
    /\ pc' = "games"
    /\ UNCHANGED <<fetch, parseVars, raceVars, standings, scores, si, todo, cur, buf, files, sj,
                   run, prevDone, fetched, last, seen>>

ScanNextSeason_StopsEarly ==
    /\ pc = "scan"
    /\ pending = {}
    /\ sj' = sj + 1
    /\ pc' = "done"
    /\ UNCHANGED pending
    /\ UNCHANGED <<fetch, parseVars, raceVars, standings, scores, si, todo, cur, buf, files, gtodo,
                   run, prevDone, fetched, last, seen, scanned>>

\* Line 96: the season's files exhausted, the next season's are selected; after
\* the last season main returns.
ScanNextSeason ==
    /\ pc = "scan"
    /\ pending = {}
    /\ sj' = sj + 1
    /\ IF sj < Len(SEASONS)
       THEN /\ pending' = FilesForSeason(SEASONS[sj + 1], files)
            /\ UNCHANGED pc
       ELSE /\ pc' = "done"
            /\ UNCHANGED pending
    /\ UNCHANGED <<fetch, parseVars, raceVars, standings, scores, si, todo, cur, buf, files, gtodo,
                   run, prevDone, fetched, last, seen, scanned>>

GameCheck_NoDedup ==
    /\ pc = "games"
    /\ gtodo # <<>>
    /\ cur' = Head(gtodo)
    /\ pc' = "gameFetch"
    /\ UNCHANGED gtodo
    /\ UNCHANGED <<fetch, parseVars, raceVars, standings, scores, si, todo, buf, files, sj, pending,
                   run, prevDone, fetched, last, seen, scanned>>

\* Lines 74-78: the next box score of the loop; one whose file exists is skipped.
GameCheck ==
    /\ pc = "games"
    /\ gtodo # <<>>
    /\ IF Exists(scores, LastSegment(Head(gtodo)))
       THEN /\ gtodo' = Tail(gtodo)
            /\ UNCHANGED <<pc, cur>>
       ELSE /\ cur' = Head(gtodo)
            /\ pc' = "gameFetch"
            /\ UNCHANGED gtodo
    /\ UNCHANGED <<fetch, parseVars, raceVars, standings, scores, si, todo, buf, files, sj, pending,
                   run, prevDone, fetched, last, seen, scanned>>

\* Line 74, the loop exhausted: scrape_game_data returns to main's file loop.
GamesDone ==
    /\ pc = "games"
    /\ gtodo = <<>>
    /\ pc' = "scan"
    /\ UNCHANGED <<fetch, parseVars, raceVars, standings, scores, si, todo, cur, buf, files, sj,
                   pending, gtodo, run, prevDone, fetched, last, seen, scanned>>

\* Lines 80-81: the box score is fetched; a falsy result writes nothing.
GameFetch ==
    /\ pc = "gameFetch"
    /\ \E r \in FetchHtmlContent(cur) :
          /\ fetched' = Inc(fetched, cur)
          /\ last' = Logged(cur, r)
          /\ IF r.status = "raised"
             THEN /\ pc' = "crashed"
                  /\ UNCHANGED <<gtodo, buf>>
             ELSE IF Falsy(r.html)
             THEN /\ pc' = "games"
                  /\ gtodo' = Tail(gtodo)
                  /\ UNCHANGED buf
             ELSE /\ pc' = "gameOpen"
                  /\ buf' = r.html
                  /\ UNCHANGED gtodo
    /\ UNCHANGED <<fetch, parseVars, raceVars, standings, scores, si, todo, cur, files, sj, pending,
                   run, prevDone, seen, scanned>>

\* Line 82: open(save_path, "w+") creates the file, or truncates it.
GameOpen ==
    /\ pc = "gameOpen"
    /\ scores' = Put(scores, LastSegment(cur), Blank)
    /\ pc' = "gameWrite"
    /\ UNCHANGED <<fetch, parseVars, raceVars, standings, si, todo, cur, buf, files, sj, pending, gtodo,
                   run, prevDone, fetched, last, seen, scanned>>

\* Line 83 and the end of the with block: the html reaches the file.
GameWrite ==
    /\ pc = "gameWrite"
    /\ scores' = Put(scores, LastSegment(cur), buf)
    /\ buf' = None
    /\ gtodo' = Tail(gtodo)
    /\ pc' = "games"
    /\ UNCHANGED <<fetch, parseVars, raceVars, standings, si, todo, cur, files, sj, pending,
                   run, prevDone, fetched, last, seen, scanned>>

\* The process has ended (main returned, an exception left it, or it was
\* terminated) and the program is started again on the same data directory: lines 102-104, 86-88.
Restart ==
    /\ pc \in {"done", "crashed", "killed"}
    /\ run < MaxRuns
    /\ run' = run + 1
    /\ prevDone' = (pc = "done")
    /\ pc' = "season"
    /\ si' = 1
    /\ todo' = <<>>
    /\ cur' = <<>>
    /\ buf' = None
    /\ files' = {}
    /\ sj' = 1
    /\ pending' = {}
    /\ gtodo' = <<>>
    /\ fetched' = EmptyBag
    /\ last' = NoFetch
    /\ seen' = NoSeen
    /\ scanned' = EmptyBag
    /\ UNCHANGED <<fetch, parseVars, raceVars, standings, scores>>

Init == InitCrawl /\ IdleFetch /\ IdleParse /\ IdlePeer

Next ==
    \/ SeasonFetch
    \/ PageCheck
    \/ PagesDone
    \/ PageFetch
    \/ PageOpen
    \/ PageWrite
    \/ ListDir
    \/ ScanFile
    \/ ScanNextSeason
    \/ GameCheck
    \/ GamesDone
    \/ GameFetch
    \/ GameOpen
    \/ GameWrite
    \/ Restart

Spec == Init /\ [][Next]_vars

(***************************************************************************)
(* SpecFetch: one call of fetch_html_content, for every base delay and     *)
(* retry budget of the bounds (and the defaults), one loop iteration per   *)
(* step, the attempt's outcome chosen by the environment.                  *)
(***************************************************************************)
Sleeps == (1..MaxSleep) \cup {DefaultSleep}
Budgets == (0..MaxRetries) \cup {DefaultRetries}
Fragments == {Blank, "<a>", "<b>"}

InitFetch ==
    /\ fetch \in {FetchStart(s, k) : s \in Sleeps, k \in Budgets}
    /\ InitCrawl
    /\ IdleParse
    /\ IdlePeer

\* Lines 28-30: the attempt raises PlaywrightTimeout.
AttemptTimesOut ==
    /\ fetch.status = "loop"
    /\ fetch' = AttemptStep(fetch, Timeout)
    /\ UNCHANGED <<crawlVars, parseVars, raceVars>>

\* Lines 22-27 raise anything else: nothing catches it.
AttemptFails ==
    /\ fetch.status = "loop"
    /\ fetch' = AttemptStep(fetch, OtherError)
    /\ UNCHANGED <<crawlVars, parseVars, raceVars>>

\* Lines 27, 31-32: inner_html returns, the loop breaks.
AttemptSucceeds ==
    /\ fetch.status = "loop"
    /\ \E h \in Fragments : fetch' = AttemptStep(fetch, Ok(h))
    /\ UNCHANGED <<crawlVars, parseVars, raceVars>>

NextFetch == AttemptTimesOut \/ AttemptFails \/ AttemptSucceeds

SpecFetch == InitFetch /\ [][NextFetch]_vars

AllTimeouts(made) == \A i \in 1..Len(made) : made[i].kind = "timeout"

RECURSIVE SumSeq(_)
SumSeq(s) == IF s = <<>> THEN 0 ELSE Head(s) + SumSeq(Tail(s))

\* C2 (retry exhaustion): with a retry budget k >= 1 and every attempt timing
\* out, the call is over only after exactly k attempts, and then it has
\* returned None: it has not raised.
C2_RetryExhaustion ==
    (fetch.retries >= 1 /\ AllTimeouts(fetch.made)) =>
        /\ fetch.status # "raised"
        /\ fetch.status = "loop" => Len(fetch.made) < fetch.retries
        /\ fetch.status = "returned" =>
              Len(fetch.made) = fetch.retries /\ fetch.html = None

C2_Witness ==
    /\ fetch.retries = 3
    /\ Len(fetch.made) = 3
    /\ AllTimeouts(fetch.made)
    /\ fetch.status = "returned"
    /\ fetch.html = None

\* C4 (only timeouts are retried): in the attempts made so far, an attempt
\* that did not time out is the last one; after an error the call has raised,
\* after a success it has returned that attempt's fragment, and after a
\* timeout with budget left the loop goes on to the next attempt.
C4_OnlyTimeoutsRetried ==
    LET n == Len(fetch.made)
    IN  /\ \A i \in 1..n : fetch.made[i].kind # "timeout" => i = n
        /\ (n > 0 /\ fetch.made[n].kind = "error") => fetch.status = "raised"
        /\ (n > 0 /\ fetch.made[n].kind = "ok") =>
              fetch.status = "returned" /\ fetch.html = fetch.made[n].html
        /\ (n > 0 /\ fetch.made[n].kind = "timeout" /\ n < fetch.retries) =>
              fetch.status = "loop" /\ fetch.attempt = n + 1
        /\ fetch.status = "raised" => (n > 0 /\ fetch.made[n].kind = "error")

C4_Witness ==
    /\ fetch.retries = 4
    /\ Len(fetch.made) = 2
    /\ fetch.made[1].kind = "timeout"
    /\ fetch.made[2].kind = "error"
    /\ fetch.status = "raised"

\* C9 (backoff growth): one delay is slept before every attempt, the first
\* included; the delay before attempt i is sleep * i, so the delays never
\* decrease, and the delays up to attempt k add up to sleep * k(k+1)/2.
C9_BackoffGrowth ==
    LET k == Len(fetch.made)
    IN  /\ Len(fetch.slept) = k
        /\ \A i \in 1..k : fetch.slept[i] = fetch.sleep * i
        /\ \A i \in 2..k : fetch.slept[i] >= fetch.slept[i - 1]
        /\ 2 * SumSeq(fetch.slept) = fetch.sleep * k * (k + 1)

C9_Witness ==
    /\ fetch.sleep = 2
    /\ Len(fetch.made) = 3
    /\ fetch.slept = <<2, 4, 6>>

(***************************************************************************)
(* Claims about the crawl (Spec).                                          *)
(***************************************************************************)
IndexUrls == {IndexUrl(SEASONS[i]) : i \in 1..Len(SEASONS)}

\* The artifacts of a directory that are written (not a file just opened).
Kept(store, store2) ==
    \A n \in DOMAIN store :
        /\ n \in DOMAIN store2
        /\ store[n] # Blank => store2[n] = store[n]

\* The run in progress started on the store a completed run left.
AfterCompletedRun == run >= 2 /\ prevDone

\* C1 as stated (idempotent crawl): during a run that follows a completed
\* run no fetch is issued at any level and the store stays as it was.
C1_Original ==
    [][(AfterCompletedRun /\ run' = run) =>
          (fetched' = fetched /\ standings' = standings /\ scores' = scores)]_vars

\* C1 as amended: during a run that follows a completed run, a fetch is issued
\* only for a season index or for a schedule page or box score that is absent
\* from the store at that moment; every artifact the store holds stays as it
\* is; and when the season loop is over every season index has been fetched
\* again, exactly once.
C1_Amended ==
    [][(AfterCompletedRun /\ run' = run) =>
          /\ \A u \in DOMAIN fetched' :
                Count(fetched', u) > Count(fetched, u) =>
                    \/ u \in IndexUrls /\ pc = "season"
                    \/ pc = "pageFetch" /\ ~Exists(standings, LastSegment(u))
                    \/ pc = "gameFetch" /\ ~Exists(scores, LastSegment(u))
          /\ Kept(standings, standings')
          /\ Kept(scores, scores')
          /\ (pc = "season" /\ pc' = "scan") =>
                \A u \in IndexUrls : Count(fetched, u) = 1]_vars

\* A second run, after a completed one, that found every page and box score
\* in the store: it is over and has fetched the season indexes, nothing else.
C1_Witness ==
    /\ AfterCompletedRun
    /\ pc = "done"
    /\ DOMAIN fetched = IndexUrls
    /\ DOMAIN seen = {2016, 2017}
    /\ {Oct16, Nov16, Dec16, Oct17} \subseteq DOMAIN standings
    /\ {G1, G2, G3} \subseteq DOMAIN scores

C5_ArtifactImmutability ==
    [][Kept(standings, standings') /\ Kept(scores, scores')]_vars

\* A second run has scanned the page that links box score G1 while G1 was in
\* the store, and has ended; the site serves two versions of G1.
C5_Witness ==
    /\ run = 2
    /\ pc = "done"
    /\ Count(scanned, Oct16) = 1
    /\ G1 \in DOMAIN scores
    /\ scores[G1] = "g1.a"
    /\ Count(fetched, AbsUrl(<<"boxscores", G1>>)) = 0

\* The schedule pages of the links L that were fetched in this run, and the
\* files scanned for a season.
FetchedOf(L) == {n \in L : \E u \in DOMAIN fetched \ IndexUrls : LastSegment(u) = n}
ScannedFor(s) == {f \in DOMAIN scanned : SeasonInName(s, f)}

MaxDocs == 2         \* documents in a batch

Raised(err) == [status |-> "raised", err |-> err, frame |-> [columns |-> <<>>, rows |-> <<>>]]
Returned(frame) == [status |-> "ok", err |-> "", frame |-> frame]

\* Index.str.lower()
Lower(c) ==
    CASE c = "MP" -> "mp" [] c = "PTS" -> "pts" [] c = "TS%" -> "ts%"
      [] c = "BPM" -> "bpm" [] c = "+/-" -> "+/-" [] OTHER -> c

\* "bpm" in col, for a label col
HasBpm(col) == \E i \in 1..Len(col) : col[i] = "bpm"

\* Python's `not x` for a value of base_columns: None and the empty list are
\* falsy, a non-empty list truthy, and a pandas Index refuses (ValueError:
\* the truth value of a Index is ambiguous).
NotCols(v) ==
    CASE v.kind = "None" -> "true"
      [] v.kind = "list" -> IF v.items = <<>> THEN "true" ELSE "false"
      [] OTHER -> "raise"

RECURSIVE MaxOf(_)
MaxOf(S) ==
    LET x == CHOOSE y \in S : TRUE
    IN  IF S = {x} THEN x
        ELSE LET m == MaxOf(S \ {x}) IN IF x > m THEN x ELSE m

\* Lines 64-65: the last row of a table, labels lower-cased.
TotalsOf(t) ==
    [i \in 1..Len(t.cols) |-> [key |-> <<Lower(t.cols[i])>>, val |-> t.rows[Len(t.rows)][i]]]

\* Lines 67-68: the column maxima of the other rows, labels lower-cased + "_max".
MaxesOf(t) ==
    [i \in 1..Len(t.cols) |->
        [key |-> <<Lower(t.cols[i]), "_max">>,
         val |-> MaxOf({t.rows[r][i] : r \in 1..(Len(t.rows) - 1)})]]

\* Lines 64-70: totals of basic then advanced, then maxima of basic then advanced.
SummaryOf(basic, advanced) ==
    TotalsOf(basic) \o TotalsOf(advanced) \o MaxesOf(basic) \o MaxesOf(advanced)

Keys(summary) == [i \in 1..Len(summary) |-> summary[i].key]

\* Index.drop_duplicates(keep="first")
RECURSIVE DropDuplicates(_)
DropDuplicates(ks) ==
    IF ks = <<>> THEN <<>>
    ELSE LET front == DropDuplicates(SubSeq(ks, 1, Len(ks) - 1))
             k == ks[Len(ks)]
         IN  IF \E i \in 1..Len(front) : front[i] = k THEN front ELSE Append(front, k)

\* [col for col in base_columns if "bpm" not in col], line 74.
RECURSIVE WithoutBpm(_)
WithoutBpm(ks) ==
    IF ks = <<>> THEN <<>>
    ELSE IF HasBpm(Head(ks)) THEN WithoutBpm(Tail(ks))
    ELSE <<Head(ks)>> \o WithoutBpm(Tail(ks))

\* Lines 73-74: the list pinned from a summary.
PinColumns(summary) == ListOf(WithoutBpm(DropDuplicates(Keys(summary))))

\* The entries of a summary that carry a label, in the summary's order.
RECURSIVE EntriesWith(_, _)
EntriesWith(summary, label) ==
    IF summary = <<>> THEN <<>>
    ELSE IF Head(summary).key = label
    THEN <<Head(summary)>> \o EntriesWith(Tail(summary), label)
    ELSE EntriesWith(Tail(summary), label)

\* summary[base_columns], line 76: for each label in turn, every entry of the
\* summary that carries it; a label the summary lacks is a KeyError.
RECURSIVE Project(_, _)
Project(summary, labels) ==
    IF labels = <<>> THEN <<>>
    ELSE EntriesWith(summary, Head(labels)) \o Project(summary, Tail(labels))
Lacks(summary, labels) ==
    \E i \in 1..Len(labels) : \A j \in 1..Len(summary) : summary[j].key # labels[i]

\* pd.read_html(..., attrs={"id": f"box-{team}-game-{stat_type}"}), line 37.
TableId(team, stat_type) == <<"box", team, "game", stat_type>>
HasTable(doc, team, stat_type) == TableId(team, stat_type) \in DOMAIN doc.tables

\* Lines 60-77: the loop over the teams, with the function's own base_columns.
RECURSIVE TeamLoop(_, _, _, _)
TeamLoop(doc, teams, base, summaries) ==
    IF teams = <<>> THEN [status |-> "ok", err |-> "", summaries |-> summaries]
    ELSE IF ~HasTable(doc, Head(teams), "basic") \/ ~HasTable(doc, Head(teams), "advanced")
    THEN [status |-> "raised", err |-> "ValueError: No tables found", summaries |-> summaries]
    ELSE LET summary == SummaryOf(doc.tables[TableId(Head(teams), "basic")],
                                  doc.tables[TableId(Head(teams), "advanced")])
             unset == NotCols(base)
             base2 == IF unset = "true" THEN PinColumns(summary) ELSE base
         IN  IF unset = "raise"
             THEN [status |-> "raised",
                   err |-> "ValueError: The truth value of a Index is ambiguous",
                   summaries |-> summaries]
             ELSE IF Lacks(summary, base2.items)
             THEN [status |-> "raised", err |-> "KeyError", summaries |-> summaries]
             ELSE TeamLoop(doc, Tail(teams), base2,
                           Append(summaries, Project(summary, base2.items)))

Suffixed(columns, suffix) == [i \in 1..Len(columns) |-> Append(columns[i], suffix)]

MirrorRows_NotReversed(rows) == rows

\* game_df.iloc[::-1].reset_index(drop=True), line 83.
MirrorRows(rows) == [i \in 1..Len(rows) |-> rows[Len(rows) + 1 - i]]

ColumnAt(columns, label) == CHOOSE i \in 1..Len(columns) : columns[i] = label

Won_OrEqual(total, total_opp) == total >= total_opp

\* full_game_df["total"] > full_game_df["total_opp"], line 89.
Won(total, total_opp) == total > total_opp

\* Lines 79-91: the two-row frame, its mirror, and the derived columns.
Assemble(doc, summaries) ==
    LET n == Len(summaries)
        game_columns == Keys(summaries[1]) \o << <<"team">>, <<"total">>, <<"home">> >>
        game_rows == [i \in 1..n |->
                        [j \in 1..Len(summaries[i]) |-> summaries[i][j].val]
                        \o <<doc.line_score[i].team, doc.line_score[i].total, i - 1>>]
        opp_rows == MirrorRows(game_rows)
        columns == game_columns \o Suffixed(game_columns, "_opp")
        total_at == ColumnAt(columns, <<"total">>)
        total_opp_at == ColumnAt(columns, <<"total", "_opp">>)
    IN  [columns |-> columns \o << <<"season">>, <<"date">>, <<"won">> >>,
         rows |-> [i \in 1..n |->
                     LET row == game_rows[i] \o opp_rows[i]
                     IN  row \o <<doc.season, doc.date,
                                  Won(row[total_at], row[total_opp_at])>>]]

\* process_box_score(box_score, base_columns), lines 51-91.  The summaries of
\* a document must carry the same labels to be stacked (line 79), and
\* game_df["home"] = [0, 1] needs exactly two rows (line 81).
ProcessBoxScore(doc, base) ==
    LET teams == [i \in 1..Len(doc.line_score) |-> doc.line_score[i].team]
        looped == TeamLoop(doc, teams, base, <<>>)
    IN  IF looped.status = "raised" THEN Raised(looped.err)
        ELSE IF looped.summaries = <<>>
        THEN Raised("ValueError: No objects to concatenate")
        ELSE IF \E i \in 1..Len(looped.summaries) :
                    Keys(looped.summaries[i]) # Keys(looped.summaries[1])
        THEN Raised("InvalidIndexError")
        ELSE IF Len(looped.summaries) # 2
        THEN Raised("ValueError: Length of values does not match length of index")
        ELSE Returned(Assemble(doc, looped.summaries))

(***************************************************************************)
(* The documents of the model: two teams with their four stat tables, in   *)
(* one of two table layouts, for every pair of totals; and two malformed   *)
(* documents (a stat table missing, a third line-score row).               *)
(***************************************************************************)
Totals == {104, 110}
Layouts == {"a", "b"}

BasicCols(layout) == IF layout = "a" THEN <<"MP", "PTS">> ELSE <<"MP", "PTS", "+/-">>
AdvancedCols(layout) == IF layout = "a" THEN <<"MP", "TS%", "BPM">> ELSE <<"MP", "TS%">>

\* A stat table: two player rows and the team totals row, last.
StatTable(cols, seed) ==
    [cols |-> cols,
     rows |-> << [i \in 1..Len(cols) |-> seed + i],
                 [i \in 1..Len(cols) |-> seed + 2 * i],
                 [i \in 1..Len(cols) |-> 2 * seed + 3 * i] >>]

Seed(team) == CASE team = "BOS" -> 1 [] team = "LAL" -> 5 [] OTHER -> 9

TablesOf(layout, teams) ==
    [id \in {TableId(t, k) : t \in teams, k \in {"basic", "advanced"}} |->
        IF id[4] = "basic" THEN StatTable(BasicCols(layout), Seed(id[2]))
        ELSE StatTable(AdvancedCols(layout), Seed(id[2]) + 1)]

Doc(layout, t1, t2) ==
    [line_score |-> << [team |-> "BOS", total |-> t1], [team |-> "LAL", total |-> t2] >>,
     tables |-> TablesOf(layout, {"BOS", "LAL"}),
     season |-> "2016",
     date |-> "20151027"]

DocMissingTable ==
    LET d == Doc("a", 110, 104)
    IN  [d EXCEPT !.tables = [id \in DOMAIN d.tables \ {TableId("LAL", "advanced")} |->
                                 d.tables[id]]]

DocThreeRows ==
    [line_score |-> << [team |-> "BOS", total |-> 110], [team |-> "LAL", total |-> 104],
                       [team |-> "NYK", total |-> 99] >>,
     tables |-> TablesOf("a", {"BOS", "LAL", "NYK"}),
     season |-> "2016",
     date |-> "20151027"]

Docs ==
    {Doc(l, t1, t2) : l \in Layouts, t1 \in Totals, t2 \in Totals}
        \cup {DocMissingTable, DocThreeRows}

RECURSIVE Batches(_)
Batches(n) ==
    IF n = 0 THEN {<<>>}
    ELSE Batches(n - 1) \cup {Append(b, d) : b \in {x \in Batches(n - 1) : Len(x) = n - 1}, d \in Docs}

(***************************************************************************)
(* SpecParse: parsedata.main over every batch of at most MaxDocs documents. *)
(***************************************************************************)
InitParse ==
    /\ BOX_SCORES \in Batches(MaxDocs)
    /\ di = 1
    /\ base_columns = NoneCols
    /\ games_data = <<>>
    /\ ppc = "loop"
    /\ csv = None
    /\ InitCrawl
    /\ IdleFetch
    /\ IdlePeer

\* Lines 98-101, the document extracted: the frame is appended, and the
\* first time base_columns becomes the frame's columns (an Index).
ProcessDocument ==
    /\ ppc = "loop"
    /\ di <= Len(BOX_SCORES)
    /\ ProcessBoxScore(BOX_SCORES[di], base_columns).status = "ok"
    /\ games_data' = Append(games_data, ProcessBoxScore(BOX_SCORES[di], base_columns).frame)
    /\ IF NotCols(base_columns) = "raise"
       THEN /\ ppc' = "raised"
            /\ UNCHANGED <<di, base_columns>>
       ELSE /\ base_columns' =
                  IF NotCols(base_columns) = "true"
                  THEN IndexOf(ProcessBoxScore(BOX_SCORES[di], base_columns).frame.columns)
                  ELSE base_columns
            /\ di' = di + 1
            /\ UNCHANGED ppc
    /\ UNCHANGED <<fetch, crawlVars, raceVars, BOX_SCORES, csv>>

DocumentRaises_Skipped ==
    /\ ppc = "loop"
    /\ di <= Len(BOX_SCORES)
    /\ ProcessBoxScore(BOX_SCORES[di], base_columns).status = "raised"
    /\ di' = di + 1
    /\ UNCHANGED <<fetch, crawlVars, raceVars, BOX_SCORES, ppc, base_columns, games_data, csv>>

\* Line 99, process_box_score raises: nothing in main catches it.
DocumentRaises ==
    /\ ppc = "loop"
    /\ di <= Len(BOX_SCORES)
    /\ ProcessBoxScore(BOX_SCORES[di], base_columns).status = "raised"
    /\ ppc' = "raised"
    /\ UNCHANGED <<fetch, crawlVars, raceVars, BOX_SCORES, di, base_columns, games_data, csv>>

RECURSIVE AllRows(_)
AllRows(frames) ==
    IF frames = <<>> THEN <<>> ELSE Head(frames).rows \o AllRows(Tail(frames))

\* Lines 106-108: the frames are concatenated and written.
WriteCsv ==
    /\ ppc = "loop"
    /\ di > Len(BOX_SCORES)
    /\ games_data # <<>>
    /\ csv' = [columns |-> games_data[1].columns, rows |-> AllRows(games_data)]
    /\ ppc' = "done"
    /\ UNCHANGED <<fetch, crawlVars, raceVars, BOX_SCORES, di, base_columns, games_data>>

\* Line 106 with no document: pd.concat([]) raises ValueError.
EmptyBatchRaises ==
    /\ ppc = "loop"
    /\ di > Len(BOX_SCORES)
    /\ games_data = <<>>
    /\ ppc' = "raised"
    /\ UNCHANGED <<fetch, crawlVars, raceVars, BOX_SCORES, di, base_columns, games_data, csv>>

NextParse == ProcessDocument \/ DocumentRaises \/ WriteCsv \/ EmptyBatchRaises

SpecParse == InitParse /\ [][NextParse]_vars

(***************************************************************************)
(* Claims about the extraction (SpecParse).                                *)
(***************************************************************************)
\* The table layout of a document: its table ids and each table's columns.
Structure(doc) == [id \in DOMAIN doc.tables |-> doc.tables[id].cols]
WellFormed(doc) ==
    /\ Len(doc.line_score) = 2
    /\ \A i \in 1..2 : HasTable(doc, doc.line_score[i].team, "basic")
                       /\ HasTable(doc, doc.line_score[i].team, "advanced")
IdenticalBatch ==
    /\ Len(BOX_SCORES) >= 2
    /\ \A i \in 1..Len(BOX_SCORES) :
          WellFormed(BOX_SCORES[i]) /\ Structure(BOX_SCORES[i]) = Structure(BOX_SCORES[1])

\* The labels of the summaries in a frame: its columns before "team".
SummaryKeys(frame) == SubSeq(frame.columns, 1, ColumnAt(frame.columns, <<"team">>) - 1)

\* C6 (schema stability): when the batch has ended on N >= 2 documents of
\* identical stat-table structure, all N were processed and every frame's
\* summaries carry the key sequence of the first.
C6_SchemaStability ==
    (ppc \in {"done", "raised"} /\ IdenticalBatch) =>
        /\ ppc = "done"
        /\ Len(games_data) = Len(BOX_SCORES)
        /\ \A g \in 1..Len(games_data) :
              SummaryKeys(games_data[g]) = SummaryKeys(games_data[1])

IsOpp(label) == label[Len(label)] = "_opp"
OwnLabels(frame) ==
    {frame.columns[i] : i \in 1..Len(frame.columns)}
        \ ({l \in {frame.columns[i] : i \in 1..Len(frame.columns)} : IsOpp(l)}
           \cup {<<"season">>, <<"date">>, <<"won">>})

\* The values a row holds under a label, in column order.
RECURSIVE ValuesOf(_, _, _)
ValuesOf(columns, row, label) ==
    IF columns = <<>> THEN <<>>
    ELSE IF Head(columns) = label
    THEN <<Head(row)>> \o ValuesOf(Tail(columns), Tail(row), label)
    ELSE ValuesOf(Tail(columns), Tail(row), label)

Cell(frame, r, label) == frame.rows[r][ColumnAt(frame.columns, label)]

WonCount(f) == Cardinality({r \in 1..Len(f.rows) : Cell(f, r, <<"won">>)})

\* C8 as stated (no-tie invariant): in every extracted game total and
\* total_opp differ in both records and exactly one record has won.
C8_Original ==
    \A g \in 1..Len(games_data) :
        /\ \A r \in 1..2 :
              Cell(games_data[g], r, <<"total">>) # Cell(games_data[g], r, <<"total", "_opp">>)
        /\ WonCount(games_data[g]) = 1

\* C8 as amended: in every extracted game each record's won is
\* total > total_opp, the totals being the line score's; when the two totals
\* differ exactly one record has won, and when they are equal (the extractor
\* accepts a tie) total = total_opp in both records and neither has won.
C8_Amended ==
    \A g \in 1..Len(games_data) :
        LET f == games_data[g]
            t1 == BOX_SCORES[g].line_score[1].total
            t2 == BOX_SCORES[g].line_score[2].total
        IN  /\ Cell(f, 1, <<"total">>) = t1 /\ Cell(f, 1, <<"total", "_opp">>) = t2
            /\ Cell(f, 2, <<"total">>) = t2 /\ Cell(f, 2, <<"total", "_opp">>) = t1
            /\ Cell(f, 1, <<"won">>) = (t1 > t2)
            /\ Cell(f, 2, <<"won">>) = (t2 > t1)
            /\ t1 # t2 => WonCount(f) = 1
            /\ t1 = t2 => WonCount(f) = 0

\* BOS 110, LAL 104: the BOS record has won, the LAL record has not.
C8_Witness ==
    /\ Len(games_data) = 1
    /\ Cell(games_data[1], 1, <<"team">>) = "BOS"
    /\ Cell(games_data[1], 1, <<"total">>) = 110
    /\ Cell(games_data[1], 1, <<"total", "_opp">>) = 104
    /\ Cell(games_data[1], 1, <<"won">>) = TRUE
    /\ Cell(games_data[1], 2, <<"total">>) = 104
    /\ Cell(games_data[1], 2, <<"total", "_opp">>) = 110
    /\ Cell(games_data[1], 2, <<"won">>) = FALSE

(***************************************************************************)
(* SpecKill: the crawl of Spec, whose process may also be terminated from  *)
(* outside at any point of a run, and started again afterwards.            *)
(***************************************************************************)
\* Lines 102-104: the process running asyncio.run(main()) is terminated where
\* it stands; its locals are lost, the data directory stays as it is.
Kill ==
    /\ pc \notin {"done", "crashed", "killed"}
    /\ pc' = "killed"
    /\ UNCHANGED <<fetch, parseVars, raceVars, standings, scores, si, todo, cur, buf, files, sj,
                   pending, gtodo, run, prevDone, fetched, last, seen, scanned>>

NextKill ==
    \/ Next
    \/ Kill

SpecKill == Init /\ [][NextKill]_vars

\* The files of a store that hold nothing.
EmptyFiles(store) == {n \in DOMAIN store : store[n] = Blank}

\* C11: crash consistency.  Once the process has been terminated, every
\* artifact present holds the complete fragment of its fetch (none is empty),
\* and a later run never skips, as already fetched, an artifact that is empty.
C11_CrashConsistency ==
    /\ pc = "killed" => EmptyFiles(standings) = {} /\ EmptyFiles(scores) = {}
    /\ (run > 1 /\ pc = "pages" /\ todo # <<>>) => LastSegment(Head(todo)) \notin EmptyFiles(standings)
    /\ (run > 1 /\ pc = "games" /\ gtodo # <<>>) => LastSegment(Head(gtodo)) \notin EmptyFiles(scores)

(***************************************************************************)
(* SpecRace: two processes of getdata.main started on the same data         *)
(* directory.  The first is the process of Spec (one run of it); the       *)
(* second, peer, runs the same statements on its own locals.  Both share   *)
(* the store, and `fetched` counts the calls of both.  No statement of     *)
(* getdata.py takes a lock.                                                *)
(***************************************************************************)
\* What a step of the peer leaves alone: the first process and its logs.
firstVars == <<fetch, parseVars, pc, si, todo, cur, buf, files, sj, pending, gtodo,
               run, prevDone, last, seen, scanned>>

\* Lines 40-49 in the peer.
PeerSeasonFetch ==
    /\ peer.pc = "season"
    /\ peer.si <= Len(SEASONS)
    /\ \E r \in FetchHtmlContent(IndexUrl(SEASONS[peer.si])) :
          /\ fetched' = Inc(fetched, IndexUrl(SEASONS[peer.si]))
          /\ peer' = IF r.status = "raised"
                     THEN [peer EXCEPT !.pc = "crashed"]
                     ELSE IF Falsy(r.html)
                     THEN [peer EXCEPT !.si = @ + 1]
                     ELSE [peer EXCEPT !.pc = "pages", !.todo = StandingsPages(r.html)]
    /\ UNCHANGED <<firstVars, standings, scores>>

\* Lines 51-55 in the peer.
PeerPageCheck ==
    /\ peer.pc = "pages"
    /\ peer.todo # <<>>
    /\ peer' = IF Exists(standings, LastSegment(Head(peer.todo)))
               THEN [peer EXCEPT !.todo = Tail(@)]
               ELSE [peer EXCEPT !.cur = Head(peer.todo), !.pc = "pageFetch"]
    /\ UNCHANGED <<firstVars, standings, scores, fetched>>

\* Line 51, the loop exhausted, in the peer.
PeerPagesDone ==
    /\ peer.pc = "pages"
    /\ peer.todo = <<>>
    /\ peer' = [peer EXCEPT !.pc = "season", !.si = @ + 1]
    /\ UNCHANGED <<firstVars, standings, scores, fetched>>

\* Lines 57-58 in the peer.
PeerPageFetch ==
    /\ peer.pc = "pageFetch"
    /\ \E r \in FetchHtmlContent(peer.cur) :
          /\ fetched' = Inc(fetched, peer.cur)
          /\ peer' = IF r.status = "raised"
                     THEN [peer EXCEPT !.pc = "crashed"]
                     ELSE IF Falsy(r.html)
                     THEN [peer EXCEPT !.pc = "pages", !.todo = Tail(@)]
                     ELSE [peer EXCEPT !.pc = "pageOpen", !.buf = r.html]
    /\ UNCHANGED <<firstVars, standings, scores>>

\* Line 59 in the peer.
PeerPageOpen ==
    /\ peer.pc = "pageOpen"
    /\ standings' = Put(standings, LastSegment(peer.cur), Blank)
    /\ peer' = [peer EXCEPT !.pc = "pageWrite"]
    /\ UNCHANGED <<firstVars, scores, fetched>>

\* Line 60 in the peer.
PeerPageWrite ==
    /\ peer.pc = "pageWrite"
    /\ standings' = Put(standings, LastSegment(peer.cur), peer.buf)
    /\ peer' = [peer EXCEPT !.pc = "pages", !.buf = None, !.todo = Tail(@),
                            !.wrote = Put(@, LastSegment(peer.cur), peer.buf)]
    /\ UNCHANGED <<firstVars, scores, fetched>>

\* Lines 95-97 in the peer.
PeerListDir ==
    /\ peer.pc = "season"
    /\ peer.si > Len(SEASONS)
    /\ peer' = [peer EXCEPT !.files = DOMAIN standings, !.sj = 1, !.pc = "scan",
                            !.pending = FilesForSeason(SEASONS[1], DOMAIN standings)]
    /\ UNCHANGED <<firstVars, standings, scores, fetched>>

\* Lines 98-99 and 67-72 in the peer.
PeerScanFile ==
    /\ peer.pc = "scan"
    /\ \E f \in peer.pending :
          peer' = [peer EXCEPT !.pending = @ \ {f}, !.pc = "games",
                               !.gtodo = BoxScoreUrls(standings[f])]
    /\ UNCHANGED <<firstVars, standings, scores, fetched>>

\* Line 96 in the peer.
PeerScanNextSeason ==
    /\ peer.pc = "scan"
    /\ peer.pending = {}
    /\ peer' = IF peer.sj < Len(SEASONS)
               THEN [peer EXCEPT !.sj = @ + 1,
                                 !.pending = FilesForSeason(SEASONS[peer.sj + 1], peer.files)]
               ELSE [peer EXCEPT !.sj = @ + 1, !.pc = "done"]
    /\ UNCHANGED <<firstVars, standings, scores, fetched>>

\* Lines 74-78 in the peer.
PeerGameCheck ==
    /\ peer.pc = "games"
    /\ peer.gtodo # <<>>
    /\ peer' = IF Exists(scores, LastSegment(Head(peer.gtodo)))
               THEN [peer EXCEPT !.gtodo = Tail(@)]
               ELSE [peer EXCEPT !.cur = Head(peer.gtodo), !.pc = "gameFetch"]
    /\ UNCHANGED <<firstVars, standings, scores, fetched>>

\* Line 74, the loop exhausted, in the peer.
PeerGamesDone ==
    /\ peer.pc = "games"
    /\ peer.gtodo = <<>>
    /\ peer' = [peer EXCEPT !.pc = "scan"]
    /\ UNCHANGED <<firstVars, standings, scores, fetched>>

\* Lines 80-81 in the peer.
PeerGameFetch ==
    /\ peer.pc = "gameFetch"
    /\ \E r \in FetchHtmlContent(peer.cur) :
          /\ fetched' = Inc(fetched, peer.cur)
          /\ peer' = IF r.status = "raised"
                     THEN [peer EXCEPT !.pc = "crashed"]
                     ELSE IF Falsy(r.html)
                     THEN [peer EXCEPT !.pc = "games", !.gtodo = Tail(@)]
                     ELSE [peer EXCEPT !.pc = "gameOpen", !.buf = r.html]
    /\ UNCHANGED <<firstVars, standings, scores>>

\* Line 82 in the peer.
PeerGameOpen ==
    /\ peer.pc = "gameOpen"
    /\ scores' = Put(scores, LastSegment(peer.cur), Blank)
    /\ peer' = [peer EXCEPT !.pc = "gameWrite"]
    /\ UNCHANGED <<firstVars, standings, fetched>>

\* Line 83 in the peer.
PeerGameWrite ==
    /\ peer.pc = "gameWrite"
    /\ scores' = Put(scores, LastSegment(peer.cur), peer.buf)
    /\ peer' = [peer EXCEPT !.pc = "games", !.buf = None, !.gtodo = Tail(@),
                            !.wrote = Put(@, LastSegment(peer.cur), peer.buf)]
    /\ UNCHANGED <<firstVars, standings, fetched>>

\* The store a first, partial run has left: the season-2016 pages and their
\* box scores are present, the season-2017 index could not be fetched.
PartialStandings == Put(Put(Put(EmptyStore, Oct16, "oct16.b"), Nov16, "nov16"), Dec16, "dec16")
PartialScores == Put(Put(EmptyStore, G1, "g1.a"), G2, "g2")

InitRace ==
    /\ standings = PartialStandings
    /\ scores = PartialScores
    /\ pc = "season"
    /\ si = 1
    /\ todo = <<>>
    /\ cur = <<>>
    /\ buf = None
    /\ files = {}
    /\ sj = 1
    /\ pending = {}
    /\ gtodo = <<>>
    /\ run = 1
    /\ prevDone = FALSE
    /\ fetched = EmptyBag
    /\ last = NoFetch
    /\ seen = NoSeen
    /\ scanned = EmptyBag
    /\ IdleFetch
    /\ IdleParse
    /\ peer = Frame("season")

NextRace ==
    \/ SeasonFetch
    \/ PageCheck
    \/ PagesDone
    \/ PageFetch
    \/ PageOpen
    \/ PageWrite
    \/ ListDir
    \/ ScanFile
    \/ ScanNextSeason
    \/ GameCheck
    \/ GamesDone
    \/ GameFetch
    \/ GameOpen
    \/ GameWrite
    \/ PeerSeasonFetch
    \/ PeerPageCheck
    \/ PeerPagesDone
    \/ PeerPageFetch
    \/ PeerPageOpen
    \/ PeerPageWrite
    \/ PeerListDir
    \/ PeerScanFile
    \/ PeerScanNextSeason
    \/ PeerGameCheck
    \/ PeerGamesDone
    \/ PeerGameFetch
    \/ PeerGameOpen
    \/ PeerGameWrite

SpecRace == InitRace /\ [][NextRace]_vars

\* C12: check-then-write race.  With two processes on one store the existence
\* test is made once, before the fetch, and nothing is tested again: a process
\* goes to fetch only a resource it found absent, and from there its open
\* truncates and its write replaces whatever the other process has put there
\* in the meantime.
C12_CheckThenWriteRace ==
    [][/\ (pc = "pages" /\ pc' = "pageFetch") => ~Exists(standings, LastSegment(cur'))
       /\ (pc = "games" /\ pc' = "gameFetch") => ~Exists(scores, LastSegment(cur'))
       /\ (pc = "pageOpen" /\ pc' # pc) =>
             pc' = "pageWrite" /\ standings' = Put(standings, LastSegment(cur), Blank)
       /\ (pc = "gameOpen" /\ pc' # pc) =>
             pc' = "gameWrite" /\ scores' = Put(scores, LastSegment(cur), Blank)
       /\ (pc = "pageWrite" /\ pc' # pc) => standings' = Put(standings, LastSegment(cur), buf)
       /\ (pc = "gameWrite" /\ pc' # pc) => scores' = Put(scores, LastSegment(cur), buf)]_vars

\* The interleaving of C12: the schedule page absent at the start has been
\* fetched twice, the peer has written it, and the first process, which passed
\* its own check before the file was there, has written it as well.
C12_Witness ==
    /\ pc = "pages"
    /\ last.status = "returned"
    /\ ~Falsy(last.html)
    /\ LastSegment(last.url) = Oct17
    /\ Count(fetched, last.url) = 2
    /\ Oct17 \in DOMAIN peer.wrote
    /\ Exists(standings, Oct17)
    /\ standings[Oct17] = last.html

\* A fetch has just returned the empty outcome (None, or an empty fragment).
EmptyOutcome ==
    /\ fetched' # fetched
    /\ last'.status = "returned"
    /\ Falsy(last'.html)

\* C13: descent rule on an empty outcome.  A season index that comes back
\* empty ends that season's branch: the process goes on with the next season,
\* nothing is written, and a schedule page is only ever fetched for a season
\* whose index was retrieved in this run.  A schedule page that comes back
\* empty writes nothing and the loop goes on with the next page.  Neither
\* ends the process.
C13_DescentRule ==
    [][/\ (pc = "season" /\ EmptyOutcome) =>
             /\ pc' = "season"
             /\ si' = si + 1
             /\ seen' = seen
             /\ standings' = standings
             /\ scores' = scores
       /\ (pc = "pageFetch" /\ EmptyOutcome) =>
             /\ pc' = "pages"
             /\ todo' = Tail(todo)
             /\ si' = si
             /\ standings' = standings
             /\ scores' = scores
       /\ (pc' = "pageFetch") =>
             /\ SEASONS[si'] \in DOMAIN seen'
             /\ LastSegment(cur') \in seen'[SEASONS[si']].L]_vars

\* A run has ended normally in which the index of 2016 came back empty (none
\* of its pages was fetched) and the one page of 2017 came back empty too.
C13_Witness ==
    /\ run = 1
    /\ pc = "done"
    /\ Count(fetched, IndexUrl(2016)) = 1
    /\ 2016 \notin DOMAIN seen
    /\ \A n \in {Oct16, Nov16, Dec16} : Count(fetched, AbsUrl(<<"leagues", n>>)) = 0
    /\ 2017 \in DOMAIN seen
    /\ Count(fetched, AbsUrl(<<"leagues", Oct17>>)) = 1
    /\ standings = EmptyStore

\* C14: extraction failures are not contained.  When process_box_score
\* raises on a document, the batch ends there: the document index does not
\* move, no later document is processed, nothing changes afterwards, and
\* nba_games.csv is not written; a batch holding a document without one of its
\* tables (or with a third line-score row) never produces a dataset.
C14_FailuresNotContained ==
    [][/\ (ppc = "loop" /\ di <= Len(BOX_SCORES)
             /\ ProcessBoxScore(BOX_SCORES[di], base_columns).status = "raised") =>
             /\ ppc' = "raised"
             /\ di' = di
             /\ games_data' = games_data
             /\ csv' = None
       /\ (ppc = "raised") => (ppc' = "raised" /\ UNCHANGED <<di, games_data, base_columns, csv>>)
       /\ (\E i \in 1..Len(BOX_SCORES) : ~WellFormed(BOX_SCORES[i])) => csv' = None]_vars

\* The first of two documents lacks a table: the batch has ended on it, the
\* second document was never taken and there is no dataset.
C14_Witness ==
    /\ Len(BOX_SCORES) = 2
    /\ BOX_SCORES[1] = DocMissingTable
    /\ WellFormed(BOX_SCORES[2])
    /\ ppc = "raised"
    /\ di = 1
    /\ games_data = <<>>
    /\ csv = None

\* The summary key list of a document: the first occurrence of each
\* lower-cased total and _max label of its first team, without the bpm labels.
FirstSummaryKeys(doc) ==
    WithoutBpm(DropDuplicates(Keys(
        SummaryOf(doc.tables[TableId(doc.line_score[1].team, "basic")],
                  doc.tables[TableId(doc.line_score[1].team, "advanced")]))))

\* C15: write-once canonical schema.  Once the first document of a batch has
\* been extracted, the schema main holds for the later documents is exactly
\* the first document's summary key list, and nothing else.
C15_WriteOnceSchema ==
    (di > 1 /\ WellFormed(BOX_SCORES[1])) => base_columns.items = FirstSummaryKeys(BOX_SCORES[1])

(***************************************************************************)
(* SpecListing: one run of getdata.main on a standings directory that      *)
(* already holds some files, among them names the season filter of line 97 *)
(* was not written for.                                                    *)
(***************************************************************************)
StoredBefore ==
    {Put(Put(EmptyStore, Oct16, "oct16.b"), TwoSeasons, "nov16"),
     Put(Put(EmptyStore, Oct16, "oct16.b"), NoSeason, "nov16"),
     Put(Put(EmptyStore, TwoSeasons, "nov16"), NoSeason, "dec16"),
     Put(EmptyStore, Oct16, "oct16.a")}

InitListing ==
    /\ standings \in StoredBefore
    /\ scores = EmptyStore
    /\ pc = "season"
    /\ si = 1
    /\ todo = <<>>
    /\ cur = <<>>
    /\ buf = None
    /\ files = {}
    /\ sj = 1
    /\ pending = {}
    /\ gtodo = <<>>
    /\ run = 1
    /\ prevDone = FALSE
    /\ fetched = EmptyBag
    /\ last = NoFetch
    /\ seen = NoSeen
    /\ scanned = EmptyBag
    /\ IdleFetch
    /\ IdleParse
    /\ IdlePeer

NextListing ==
    \/ SeasonFetch
    \/ PageCheck
    \/ PagesDone
    \/ PageFetch
    \/ PageOpen
    \/ PageWrite
    \/ ListDir
    \/ ScanFile
    \/ ScanNextSeason
    \/ GameCheck
    \/ GamesDone
    \/ GameFetch
    \/ GameOpen
    \/ GameWrite

SpecListing == InitListing /\ [][NextListing]_vars

\* C16: each persisted schedule page is scanned exactly once per run.  When
\* main has returned, every file the standings directory held when it was
\* listed has been passed to scrape_game_data exactly once, whatever its name.
C16_ScannedExactlyOnce ==
    pc = "done" => \A f \in files : Count(scanned, f) = 1

\* No file of the store is empty, but the one the process has opened and is
\* about to write.
NoEmptyArtifact ==
    /\ \A n \in EmptyFiles(standings) : pc = "pageWrite" /\ n = LastSegment(cur)
    /\ \A n \in EmptyFiles(scores) : pc = "gameWrite" /\ n = LastSegment(cur)

\* A fetch has just succeeded with an empty fragment.
EmptyFragment ==
    /\ fetched' # fetched
    /\ last'.status = "returned"
    /\ last'.html = Blank

\* C17: no empty artifact is ever persisted.  In a process that is not
\* interrupted every artifact of the store holds a non-empty fragment after
\* every step; a fetch that succeeds with an empty fragment writes nothing
\* and its branch is skipped, as for a failed fetch; and a resource that is
\* absent when its turn comes (in this run or the next) is fetched.
C17_NoEmptyArtifact ==
    [][/\ NoEmptyArtifact'
       /\ (pc = "season" /\ EmptyFragment) =>
             pc' = "season" /\ si' = si + 1 /\ standings' = standings /\ scores' = scores
       /\ (pc = "pageFetch" /\ EmptyFragment) =>
             /\ pc' = "pages"
             /\ todo' = Tail(todo)
             /\ standings' = standings
             /\ scores' = scores
             /\ ~Exists(standings', LastSegment(cur))
       /\ (pc = "gameFetch" /\ EmptyFragment) =>
             /\ pc' = "games"
             /\ gtodo' = Tail(gtodo)
             /\ standings' = standings
             /\ scores' = scores
             /\ ~Exists(scores', LastSegment(cur))
       /\ (pc = "pages" /\ todo # <<>> /\ todo' = todo /\ run' = run
             /\ ~Exists(standings, LastSegment(Head(todo)))) =>
             (pc' = "pageFetch" /\ cur' = Head(todo)) \/ UNCHANGED vars
       /\ (pc = "games" /\ gtodo # <<>> /\ gtodo' = gtodo /\ run' = run
             /\ ~Exists(scores, LastSegment(Head(gtodo)))) =>
             (pc' = "gameFetch" /\ cur' = Head(gtodo)) \/ UNCHANGED vars]_vars

\* In a second run, the fetch of the first schedule page of 2016 has
\* succeeded with an empty fragment: the page is absent and the loop is at
\* the next page.
C17_Witness ==
    /\ run = 2
    /\ pc = "pages"
    /\ last.url = AbsUrl(<<"leagues", Oct16>>)
    /\ last.status = "returned"
    /\ last.html = Blank
    /\ ~Exists(standings, Oct16)
    /\ Len(todo) = 2
    /\ EmptyFiles(standings) = {}

\* Every fetch of the run up to now succeeded with a non-empty fragment:
\* every season index was retrieved, and every other url fetched was fetched
\* once and its artifact is in the store.
AllFetchesOk ==
    /\ DOMAIN seen = {SEASONS[i] : i \in 1..Len(SEASONS)}
    /\ \A u \in DOMAIN fetched :
          /\ Count(fetched, u) = 1
          /\ u \notin IndexUrls =>
                LastSegment(u) \in (DOMAIN standings \cup DOMAIN scores) \ 
                                     (EmptyFiles(standings) \cup EmptyFiles(scores))

\* The box scores linked from a schedule page of the store.
LinkedFrom(page) == Names(BoxScoreUrls(standings[page]))

\* The store holds every schedule page the indexes of this run listed and
\* every box score linked from each of them.
Complete ==
    \A s \in DOMAIN seen : \A n \in seen[s].L :
        /\ Exists(standings, n)
        /\ n \notin EmptyFiles(standings)
        /\ \A g \in LinkedFrom(n) : Exists(scores, g) /\ g \notin EmptyFiles(scores)

\* C18: crawl completeness and resumability.  When a run has ended, every
\* schedule page its indexes listed, and every box score linked from a page
\* it scanned, is either in the store or was attempted in that run (so what
\* an earlier run left absent is attempted again); and if every fetch of the
\* run succeeded with a non-empty fragment, the store then holds every page
\* listed and every box score linked from each of them, those of the pages
\* first fetched in that run included.
C18_CompleteAndResumable ==
    pc = "done" =>
        /\ \A s \in DOMAIN seen : \A n \in seen[s].L :
              Exists(standings, n) \/ Count(fetched, AbsUrl(<<"leagues", n>>)) >= 1
        /\ \A f \in DOMAIN scanned : \A g \in LinkedFrom(f) :
              Exists(scores, g) \/ Count(fetched, AbsUrl(<<"boxscores", g>>)) >= 1
        /\ AllFetchesOk => Complete

\* A first run ended on an exception; in the second every fetch succeeded,
\* the page of 2017 and its box score were both fetched in that run, and the
\* store is complete.
C18_Witness ==
    /\ run = 2
    /\ ~prevDone
    /\ pc = "done"
    /\ AllFetchesOk
    /\ Complete
    /\ Count(fetched, AbsUrl(<<"leagues", Oct17>>)) = 1
    /\ Count(fetched, AbsUrl(<<"boxscores", G3>>)) = 1
    /\ DOMAIN standings = {Oct16, Nov16, Dec16, Oct17}
    /\ G3 \in DOMAIN scores

====
